---- MODULE Spec2Model ----
(***************************************************************************)
(* Model of khanlab/autobids-globus: the driver main_native and the        *)
(* reconciler update_collection of src/globusautobids/globus.py, the       *)
(* tables of src/globusautobids/models.py, and the remote services they    *)
(* call (GCS manager credentials and collections, Globus Auth identities,  *)
(* Globus Transfer access rules).                                          *)
(*                                                                         *)
(* A run of main_native is a process p; pc[p] is its position in the code. *)
(* The database state is the committed content of the three tables; rows   *)
(* a session has flushed but not committed are in tx_user[p], tx_assoc[p]. *)
(***************************************************************************)
EXTENDS Integers, Sequences, FiniteSets, Bags, TLC

\* ------------------------------------------------------------------ bounds
MaxRuns == 2        \* runs of main_native in one behaviour
MaxCalls == 2       \* calls of update_collection in one behaviour

Procs == {1, 2}
StudyIds == {7, 8}
Usernames == {"alice", "bob"}
TypeInputs == {"rawdata", "deriveddata", "derivatives"}
StudyPaths == {"/data"}

\* ------------------------------------------------------- program constants
STORAGE_GATEWAY_ID_GRAHAM == "gw-graham"
COLLECTION_ID_GRAHAM == "mapped-graham"
USER_ID == "user-id"
ID_CONNECTOR == "connector"
USERNAME == "autobids"

\* DatasetType.from_bids_str: the dict `map`; a string outside its domain is a KeyError
from_bids_str ==
    [sourcedata |-> "SOURCE_DATA", rawdata |-> "RAW_DATA", deriveddata |-> "DERIVED_DATA"]

DatasetType == {"SOURCE_DATA", "RAW_DATA", "DERIVED_DATA"}

\* ---------------------------------------------------------------- inputs
\* the users arrays of the portal's studies: empty, one name, two names in either
\* order, and a name listed twice
UserLists ==
    {<<>>, <<"alice">>, <<"bob">>, <<"alice", "bob">>, <<"bob", "alice">>, <<"alice", "alice">>}

Drop(s, key) == [x \in (DOMAIN s) \ {key} |-> s[x]]

\* a study dict of the portal's JSON with all four keys
FullStudies ==
    {[id |-> i, type |-> t, path |-> d, users |-> u] :
        i \in StudyIds, t \in TypeInputs, d \in StudyPaths, u \in UserLists}

\* the study dicts the portal may deliver: full ones, and ones with a key missing
\* (one study is enough where the call ends before it reads the rest of the dict)
Studies ==
    {s \in FullStudies : s.type \in DOMAIN from_bids_str}
    \cup {s \in FullStudies : s.id = 7 /\ s.type \notin DOMAIN from_bids_str /\ s.users = <<"alice">>}
    \cup {Drop(s, key) : s \in {t \in FullStudies : t.id = 7 /\ t.type = "rawdata" /\ t.users = <<"alice">>},
                          key \in {"type", "path", "users"}}

Range(s) == {s[i] : i \in DOMAIN s}

\* --------------------------------------------------------------- state
VARIABLES
    guest_collection,   \* table guest_collection (committed rows)
    globus_user,        \* table globus_user (committed rows)
    association,        \* table association (committed rows)
    seq_guest_collection, \* serial of guest_collection.id
    seq_globus_user,    \* serial of globus_user.id
    credentials,        \* remote: user credentials of the GCS manager
    collections,        \* remote: guest collections of the GCS manager
    acl,                \* remote: access rules, a bag (a rule may be added twice)
    runs,               \* runs of main_native started so far
    ncalls,             \* calls of update_collection started so far
    pc,                 \* position of each run
    err,                \* the exception that ended the run, or "none"
    failed_at,          \* the position where it was raised
    id_credential_user, \* main_native: id_credential_user
    todo,               \* main_native: studies of resp.json() not yet iterated
    study,              \* update_collection: study
    guest,              \* update_collection: guest_collection (NoRow for None)
    id_collection_guest, \* update_collection: id_collection_guest
    existing_usernames, \* update_collection: existing_usernames
    k,                  \* update_collection: index of the for loop over study["users"]
    tx_user,            \* session: globus_user rows not yet committed
    tx_assoc,           \* session: association rows not yet committed
    obs,                \* what the current (or last) call of update_collection did
    last_ok             \* the study of the last call that returned

db == <<guest_collection, globus_user, association, seq_guest_collection, seq_globus_user>>
remote == <<credentials, collections, acl>>
driver == <<runs, ncalls, id_credential_user, todo>>
locals == <<study, guest, id_collection_guest, existing_usernames, k>>
ghosts == <<obs, last_ok>>
call == <<locals, ghosts>>
session == <<tx_user, tx_assoc>>
ctl == <<pc, err, failed_at>>
vars == <<db, remote, driver, call, session, ctl>>

\* obs[p]: the remote calls the call issued and the rows it committed
\*   had_row    a row for the study's key existed when the call started
\*   again      the call before it returned, and had the same study
\*   n_create   create-collection calls issued
\*   granted    the usernames of the grants that succeeded, in order
\*   n_rows, n_users, n_assoc   rows added to guest_collection, globus_user, association
NoObs == [had_row |-> FALSE, again |-> FALSE, n_create |-> 0, granted |-> <<>>,
          n_rows |-> 0, n_users |-> 0, n_assoc |-> 0]

NoRow == [id |-> 0, study_id |-> 0, dataset_type |-> "None", globus_uuid |-> 0]
NoStudy == [id |-> 0]

Stopped == {"idle", "done", "failed", "crashed"}

\* ------------------------------------------------------ remote services
\* auth_client.get_identities(usernames=email).data["identities"][0]["id"]
IdentityOf(username) == <<"identity", username>>

\* an access rule that lets the user write as well
ReadWriteRule(uuid, username) ==
    [endpoint |-> uuid, principal_type |-> "identity", principal |-> IdentityOf(username),
     path |-> "/", permissions |-> "rw"]

\* the access rule add_read_permission posts for a collection and a username
ReadRule(uuid, username) ==
    [endpoint |-> uuid, principal_type |-> "identity", principal |-> IdentityOf(username),
     path |-> "/", permissions |-> "r"]

\* a GCS manager that gives every collection the same id
FirstUuid == 100 + 1

\* the id the GCS manager gives the next collection it creates
NewUuid == 100 + Cardinality(collections) + 1

\* the JSON body create_collection posts, as stored by the GCS manager under a new id
NewCollection(s, id_credential) ==
    [id |-> NewUuid,
     display_name |-> <<"autobids_study", s.id, "type", s.type>>,
     collection_base_path |-> s.path,
     user_credential_id |-> id_credential,
     mapped_collection_id |-> COLLECTION_ID_GRAHAM]

\* a credential of this user at another storage gateway of the GCS manager: the list
\* get_credential searches holds it before the first run
OtherCredential ==
    [id |-> 1, connector_id |-> ID_CONNECTOR, username |-> USERNAME,
     storage_gateway_id |-> "gw-other"]

\* a search that takes any credential of the list
AnyCredential(id_storage_gateway) == credentials

\* get_credential: the credentials of the list with cred["storage_gateway_id"] == id_storage_gateway
CredentialsOf(id_storage_gateway) ==
    {c \in credentials : c.storage_gateway_id = id_storage_gateway}

\* ------------------------------------------------------------ database
KeyErrorType == "KeyError"

\* a conversion that takes any other string for derived data
FromBidsStrLenient(bids_str) ==
    IF bids_str \in DOMAIN from_bids_str THEN from_bids_str[bids_str] ELSE "DERIVED_DATA"

\* DatasetType.from_bids_str(bids_str): map[bids_str], a KeyError outside the map
FromBidsStr(bids_str) ==
    IF bids_str \in DOMAIN from_bids_str THEN from_bids_str[bids_str] ELSE KeyErrorType

\* a lookup that finds nothing
QueryNothing(study_id, dataset_type) == NoRow

\* a lookup by the study alone
QueryByStudy(study_id, dataset_type) ==
    LET found == {g \in guest_collection : g.study_id = study_id}
    IN  IF found = {} THEN NoRow ELSE CHOOSE g \in found : TRUE

\* session.query(GuestCollection).filter_by(study_id=, dataset_type=).one_or_none()
QueryGuestCollection(study_id, dataset_type) ==
    LET found == {g \in guest_collection :
                    g.study_id = study_id /\ g.dataset_type = dataset_type}
    IN  IF found = {} THEN NoRow ELSE CHOOSE g \in found : TRUE

\* a table without constraints
Unconstrained(row) == TRUE

\* the constraints of guest_collection: unique (study_id, dataset_type), unique globus_uuid
GuestCollectionInsertable(row) ==
    \A g \in guest_collection :
        /\ ~(g.study_id = row.study_id /\ g.dataset_type = row.dataset_type)
        /\ g.globus_uuid # row.globus_uuid

\* the globus_user rows a session sees: committed ones and its own flushed ones
VisibleUsers(p) == globus_user \cup tx_user[p]
VisibleAssoc(p) == association \cup tx_assoc[p]

NoUser == [id |-> 0, username |-> "", guest_collection_id |-> 0]

\* a lookup of a user that finds nothing
QueryNoUser(p, username) == NoUser

\* session.query(GlobusUser).filter_by(username=username).one_or_none()
QueryGlobusUser(p, username) ==
    LET found == {u \in VisibleUsers(p) : u.username = username}
    IN  IF found = {} THEN NoUser ELSE CHOOSE u \in found : TRUE

\* a read of the relationship that returns no user
NoUsernames(p, g) == {}

\* guest_collection.globus_users: the users joined to the collection through association
GlobusUsersOf(p, g) ==
    {u \in VisibleUsers(p) :
        [guest_collection_id |-> g.id, globus_user_id |-> u.id] \in VisibleAssoc(p)}

\* {globus_user.username for globus_user in guest_collection.globus_users}
ExistingUsernames(p, g) == {u.username : u \in GlobusUsersOf(p, g)}

\* the constraints checked when the session's rows are committed: unique username,
\* primary key (guest_collection_id, globus_user_id)
SessionCommittable(p) ==
    /\ \A u \in tx_user[p] : \A v \in globus_user : v.username # u.username
    /\ tx_assoc[p] \cap association = {}

\* a commit that replaces the table's rows
ReplaceRows(table, rows) == rows

\* what session.commit() at the end of update_collection makes of a table
CommitRows(table, rows) == table \cup rows

\* a row that is added to the session and not committed
NotCommitted(table, row) == table

\* what the commit after session.add(guest_collection) makes of the table
CommitGuestCollection(table, row) == table \cup {row}

\* a commit in every iteration
CommittedEach(rows) == rows

\* the rows an iteration of the grant loop commits: none, the commit follows the loop
CommittedInLoop(rows) == {}

\* ------------------------------------------------------------- control
\* a row for the study's key exists (no key, or no dataset type: no row)
HasRow(s) ==
    /\ "type" \in DOMAIN s
    /\ s.type \in DOMAIN from_bids_str
    /\ \E g \in guest_collection :
            g.study_id = s.id /\ g.dataset_type = from_bids_str[s.type]

\* the rows a step adds to globus_user and association, counted in obs
Added(p) ==
    obs' = [obs EXCEPT
              ![p].n_users = @ + Cardinality(globus_user') - Cardinality(globus_user),
              ![p].n_assoc = @ + Cardinality(association') - Cardinality(association)]

\* the locals of update_collection at its entry
EnterCall(p, s) ==
    /\ study' = [study EXCEPT ![p] = s]
    /\ guest' = [guest EXCEPT ![p] = NoRow]
    /\ id_collection_guest' = [id_collection_guest EXCEPT ![p] = 0]
    /\ existing_usernames' = [existing_usernames EXCEPT ![p] = {}]
    /\ k' = [k EXCEPT ![p] = 0]

\* the process ends: its memory is gone, and the session it had open is closed, which
\* rolls back what it had not committed
Exit(p, how) ==
    /\ pc' = [pc EXCEPT ![p] = how]
    /\ failed_at' = [failed_at EXCEPT ![p] = IF how = "done" THEN "none" ELSE pc[p]]
    /\ tx_user' = [tx_user EXCEPT ![p] = {}]
    /\ tx_assoc' = [tx_assoc EXCEPT ![p] = {}]
    /\ id_credential_user' = [id_credential_user EXCEPT ![p] = 0]
    /\ EnterCall(p, NoStudy)
    /\ UNCHANGED <<runs, ncalls>>

\* an exception caught at the loop of main_native: the session is closed and the loop
\* goes on with the next study
RaiseCaught(p, e) ==
    /\ pc' = [pc EXCEPT ![p] = IF pc[p] \in {"get_credential", "post_credential", "fetch"}
                                THEN "failed" ELSE "loop"]
    /\ err' = [err EXCEPT ![p] = e]
    /\ failed_at' = [failed_at EXCEPT ![p] = pc[p]]
    /\ tx_user' = [tx_user EXCEPT ![p] = {}]
    /\ tx_assoc' = [tx_assoc EXCEPT ![p] = {}]
    /\ UNCHANGED <<runs, ncalls, id_credential_user, todo, locals>>

\* an exception: nothing in update_collection or main_native catches it, so it leaves
\* both and the process ends with a traceback
Raise(p, e) ==
    /\ Exit(p, "failed")
    /\ err' = [err EXCEPT ![p] = e]
    /\ UNCHANGED todo

Goto(p, where) ==
    /\ pc' = [pc EXCEPT ![p] = where]
    /\ UNCHANGED <<err, failed_at>>

\* single writer: every run is a run of the one writer process, after its last run ended
Writer == CHOOSE p \in Procs : \A q \in Procs : p <= q
SingleWriter(p) == p = Writer /\ \A q \in Procs \ {p} : pc[q] \in Stopped

Init ==
    /\ guest_collection = {} /\ globus_user = {} /\ association = {}
    /\ seq_guest_collection = 0 /\ seq_globus_user = 0
    /\ credentials = {OtherCredential} /\ collections = {} /\ acl = EmptyBag
    /\ runs = 0 /\ ncalls = 0
    /\ pc = [p \in Procs |-> "idle"]
    /\ err = [p \in Procs |-> "none"]
    /\ failed_at = [p \in Procs |-> "none"]
    /\ id_credential_user = [p \in Procs |-> 0]
    /\ todo = [p \in Procs |-> 0]
    /\ study = [p \in Procs |-> NoStudy]
    /\ guest = [p \in Procs |-> NoRow]
    /\ id_collection_guest = [p \in Procs |-> 0]
    /\ existing_usernames = [p \in Procs |-> {}]
    /\ k = [p \in Procs |-> 0]
    /\ tx_user = [p \in Procs |-> {}]
    /\ tx_assoc = [p \in Procs |-> {}]
    /\ obs = [p \in Procs |-> NoObs]
    /\ last_ok = NoStudy

\* main_native is started (python globus.py)
Start(p) ==
    /\ pc[p] \in Stopped
    /\ SingleWriter(p)
    /\ runs < MaxRuns
    /\ runs' = runs + 1
    /\ pc' = [pc EXCEPT ![p] = "get_credential"]
    /\ err' = [err EXCEPT ![p] = "none"]
    /\ failed_at' = [failed_at EXCEPT ![p] = "none"]
    /\ todo' = [todo EXCEPT ![p] = 0]
    /\ obs' = [obs EXCEPT ![p] = NoObs]
    /\ UNCHANGED <<db, remote, session, ncalls, id_credential_user, locals, last_ok>>

\* get_credential: GET user_credentials and the search for this storage gateway
GetCredential(p) ==
    /\ pc[p] = "get_credential"
    /\ \E ok \in BOOLEAN :
        IF ~ok THEN Raise(p, "RemoteProvisioningError")
        ELSE LET mine == CredentialsOf(STORAGE_GATEWAY_ID_GRAHAM)
             IN  /\ IF mine # {} THEN
                        /\ id_credential_user' =
                            [id_credential_user EXCEPT ![p] = (CHOOSE c \in mine : TRUE).id]
                        /\ Goto(p, "fetch")
                    ELSE
                        /\ Goto(p, "post_credential")
                        /\ UNCHANGED id_credential_user
                 /\ UNCHANGED <<runs, ncalls, todo, locals, session>>
    /\ UNCHANGED <<db, remote, ghosts>>

\* get_credential: POST user_credentials when none was found
PostCredential(p) ==
    /\ pc[p] = "post_credential"
    /\ \E ok \in BOOLEAN :
        IF ~ok THEN
            /\ Raise(p, "RemoteProvisioningError")
            /\ UNCHANGED credentials
        ELSE LET new == [id |-> Cardinality(credentials) + 1,
                         connector_id |-> ID_CONNECTOR,
                         username |-> USERNAME,
                         storage_gateway_id |-> STORAGE_GATEWAY_ID_GRAHAM]
             IN  /\ credentials' = credentials \cup {new}
                 /\ id_credential_user' = [id_credential_user EXCEPT ![p] = new.id]
                 /\ Goto(p, "fetch")
                 /\ UNCHANGED <<runs, ncalls, todo, locals, session>>
    /\ UNCHANGED <<db, collections, acl, ghosts>>

\* the studies the lists of the running processes in S still hold
RECURSIVE Remaining(_)
Remaining(S) ==
    IF S = {} THEN 0
    ELSE LET q == CHOOSE x \in S : TRUE
         IN  (IF pc[q] \in Stopped THEN 0 ELSE todo[q]) + Remaining(S \ {q})

\* main_native: requests.get(AUTOBIDS_PORTAL_URL/api/globus_users) and resp.json()
FetchStudies(p) ==
    /\ pc[p] = "fetch"
    /\ \E ok \in BOOLEAN :
        IF ~ok THEN Raise(p, "PortalError")
        ELSE \E n \in 0..(MaxCalls - ncalls - Remaining(Procs \ {p})) :
                /\ todo' = [todo EXCEPT ![p] = n]
                /\ Goto(p, "loop")
                /\ UNCHANGED <<runs, ncalls, id_credential_user, locals, session>>
    /\ UNCHANGED <<db, remote, ghosts>>

\* main_native: for study in resp.json(): update_collection(study, ...), the next study
\* being one of the study dicts of S
ForStudyOf(p, S) ==
    /\ pc[p] = "loop"
    /\ IF todo[p] = 0 THEN
            /\ Exit(p, "done")
            /\ UNCHANGED <<err, todo, ghosts>>
       ELSE \E s \in S :
            /\ todo' = [todo EXCEPT ![p] = todo[p] - 1]
            /\ ncalls' = ncalls + 1
            /\ EnterCall(p, s)
            /\ obs' = [obs EXCEPT ![p] =
                            [NoObs EXCEPT !.had_row = HasRow(s), !.again = (s = last_ok)]]
            /\ UNCHANGED last_ok
            /\ Goto(p, "query")
            /\ UNCHANGED <<runs, id_credential_user, session>>
    /\ UNCHANGED <<db, remote>>

ForStudy(p) == ForStudyOf(p, Studies)

\* update_collection: the query for the study's guest collection
Query(p) ==
    /\ pc[p] = "query"
    /\ IF "type" \notin DOMAIN study[p] THEN Raise(p, "MalformedStudyInput")
       ELSE IF FromBidsStr(study[p].type) = KeyErrorType THEN Raise(p, "UnknownDatasetType")
       ELSE LET g == QueryGuestCollection(study[p].id, FromBidsStr(study[p].type))
            IN  /\ guest' = [guest EXCEPT ![p] = g]
                /\ Goto(p, IF g = NoRow THEN "create" ELSE "diff")
                /\ UNCHANGED <<driver, study, id_collection_guest, existing_usernames, k,
                               session>>
    /\ UNCHANGED <<db, remote, ghosts>>

\* update_collection: create_collection(...), the POST to the GCS manager
CreateCollection(p) ==
    /\ pc[p] = "create"
    /\ IF "path" \notin DOMAIN study[p] THEN
            /\ Raise(p, "MalformedStudyInput")
            /\ UNCHANGED <<collections, ghosts>>
       ELSE \E ok \in BOOLEAN :
            /\ UNCHANGED last_ok
            /\ obs' = [obs EXCEPT ![p].n_create = @ + 1]
            /\ IF ~ok THEN
                    /\ Raise(p, "RemoteProvisioningError")
                    /\ UNCHANGED collections
               ELSE /\ collections' =
                        collections \cup {NewCollection(study[p], id_credential_user[p])}
                    /\ id_collection_guest' = [id_collection_guest EXCEPT ![p] = NewUuid]
                    /\ Goto(p, "add")
                    /\ UNCHANGED <<driver, study, guest, existing_usernames, k, session>>
    /\ UNCHANGED <<db, credentials, acl>>

\* update_collection: session.add(guest_collection); session.commit()
AddCollection(p) ==
    /\ pc[p] = "add"
    /\ LET row == [id |-> seq_guest_collection + 1,
                   study_id |-> study[p].id,
                   dataset_type |-> FromBidsStr(study[p].type),
                   globus_uuid |-> id_collection_guest[p]]
       IN  /\ seq_guest_collection' = seq_guest_collection + 1
           /\ IF ~GuestCollectionInsertable(row) THEN
                    /\ Raise(p, "IntegrityError")
                    /\ UNCHANGED <<guest_collection, ghosts>>
              ELSE  /\ guest_collection' = CommitGuestCollection(guest_collection, row)
                    /\ guest' = [guest EXCEPT ![p] = row]
                    /\ obs' = [obs EXCEPT ![p].n_rows =
                                @ + Cardinality(guest_collection') - Cardinality(guest_collection)]
                    /\ UNCHANGED last_ok
                    /\ Goto(p, "diff")
                    /\ UNCHANGED <<driver, study, id_collection_guest, existing_usernames,
                                   k, session>>
    /\ UNCHANGED <<globus_user, association, seq_globus_user, remote>>

\* update_collection: existing_usernames = {...}
Diff(p) ==
    /\ pc[p] = "diff"
    /\ existing_usernames' = [existing_usernames EXCEPT ![p] = ExistingUsernames(p, guest[p])]
    /\ k' = [k EXCEPT ![p] = 1]
    /\ Goto(p, "users")
    /\ UNCHANGED <<db, remote, driver, study, guest, id_collection_guest, ghosts, session>>

\* update_collection: for username in study["users"]: if username not in existing_usernames
ForUser(p) ==
    /\ pc[p] = "users"
    /\ IF "users" \notin DOMAIN study[p] THEN Raise(p, "MalformedStudyInput")
       ELSE /\ IF k[p] > Len(study[p].users) THEN
                    /\ Goto(p, "commit")
                    /\ UNCHANGED k
               ELSE IF study[p].users[k[p]] \in existing_usernames[p] THEN
                    /\ k' = [k EXCEPT ![p] = k[p] + 1]
                    /\ UNCHANGED ctl
               ELSE /\ Goto(p, "grant")
                    /\ UNCHANGED k
            /\ UNCHANGED <<driver, study, guest, id_collection_guest, existing_usernames,
                           session>>
    /\ UNCHANGED <<db, remote, ghosts>>

\* update_collection: add_read_permission(...), the identity lookup and the access rule
Grant(p) ==
    /\ pc[p] = "grant"
    /\ \E ok \in BOOLEAN :
        IF ~ok THEN
            /\ Raise(p, "RemoteProvisioningError")
            /\ UNCHANGED <<acl, ghosts>>
        ELSE LET username == study[p].users[k[p]]
             IN  /\ acl' = acl (+) SetToBag({ReadRule(guest[p].globus_uuid, username)})
                 /\ obs' = [obs EXCEPT ![p].granted = Append(@, username)]
                 /\ UNCHANGED last_ok
                 /\ Goto(p, "append")
                 /\ UNCHANGED <<driver, locals, session>>
    /\ UNCHANGED <<db, credentials, collections>>

\* update_collection: the GlobusUser query and guest_collection.globus_users.append(...).
\* The query flushes what earlier iterations appended, so a name listed twice finds its
\* row the second time, and the second append of the same object adds no second
\* association row. The new rows are inserted by the next flush (a later query, or the
\* commit); a constraint they violate fails that flush.
AppendUser(p) ==
    /\ pc[p] = "append"
    /\ LET username == study[p].users[k[p]]
           found == QueryGlobusUser(p, username)
           user == IF found # NoUser THEN found
                   ELSE [id |-> seq_globus_user + 1, username |-> username,
                         guest_collection_id |-> guest[p].id]
           link == [guest_collection_id |-> guest[p].id, globus_user_id |-> user.id]
           new_users == IF found # NoUser THEN {} ELSE {user}
       IN  /\ seq_globus_user' = IF found # NoUser THEN seq_globus_user
                                 ELSE seq_globus_user + 1
           /\ globus_user' = CommitRows(globus_user, CommittedInLoop(new_users))
           /\ association' = CommitRows(association, CommittedInLoop({link}))
           /\ tx_user' = [tx_user EXCEPT ![p] = tx_user[p] \cup new_users]
           /\ tx_assoc' = [tx_assoc EXCEPT ![p] = tx_assoc[p] \cup {link}]
    /\ Added(p)
    /\ UNCHANGED last_ok
    /\ k' = [k EXCEPT ![p] = k[p] + 1]
    /\ Goto(p, "users")
    /\ UNCHANGED <<guest_collection, seq_guest_collection, remote, driver, study, guest,
                   id_collection_guest, existing_usernames>>

\* update_collection: the final session.commit()
Commit(p) ==
    /\ pc[p] = "commit"
    /\ IF ~SessionCommittable(p) THEN
            /\ Raise(p, "IntegrityError")
            /\ UNCHANGED <<globus_user, association, ghosts>>
       ELSE /\ globus_user' = CommitRows(globus_user, tx_user[p])
            /\ association' = CommitRows(association, tx_assoc[p])
            /\ tx_user' = [tx_user EXCEPT ![p] = {}]
            /\ tx_assoc' = [tx_assoc EXCEPT ![p] = {}]
            /\ Added(p)
            /\ last_ok' = study[p]
            /\ Goto(p, "loop")
            /\ UNCHANGED <<driver, locals>>
    /\ UNCHANGED <<guest_collection, seq_guest_collection, seq_globus_user, remote>>

\* the process dies (kill, power loss)
Crash(p) ==
    /\ pc[p] \notin Stopped
    /\ Exit(p, "crashed")
    /\ UNCHANGED <<err, todo, db, remote, ghosts>>

Next ==
    \E p \in Procs :
        \/ Start(p)
        \/ GetCredential(p)
        \/ PostCredential(p)
        \/ FetchStudies(p)
        \/ ForStudy(p)
        \/ Query(p)
        \/ CreateCollection(p)
        \/ AddCollection(p)
        \/ Diff(p)
        \/ ForUser(p)
        \/ Grant(p)
        \/ AppendUser(p)
        \/ Commit(p)
        \/ Crash(p)

Spec == Init /\ [][Next]_vars

\* main_native is started while another run of it may be under way: nothing in the script
\* or the database keeps a second process from starting
StartOverlapping(p) ==
    /\ pc[p] \in Stopped
    /\ runs < MaxRuns
    /\ runs' = runs + 1
    /\ pc' = [pc EXCEPT ![p] = "get_credential"]
    /\ err' = [err EXCEPT ![p] = "none"]
    /\ failed_at' = [failed_at EXCEPT ![p] = "none"]
    /\ todo' = [todo EXCEPT ![p] = 0]
    /\ obs' = [obs EXCEPT ![p] = NoObs]
    /\ UNCHANGED <<db, remote, session, ncalls, id_credential_user, locals, last_ok>>

\* the study dicts delivered to overlapping runs: those of one study with all four keys,
\* a known type and one user
StudiesOverlapping ==
    {s \in FullStudies :
        s.id = 7 /\ s.type \in DOMAIN from_bids_str /\ s.users = <<"alice">>}

ForStudyOverlapping(p) == ForStudyOf(p, StudiesOverlapping)

NextOverlapping ==
    \E p \in Procs :
        \/ StartOverlapping(p)
        \/ GetCredential(p)
        \/ PostCredential(p)
        \/ FetchStudies(p)
        \/ ForStudyOverlapping(p)
        \/ Query(p)
        \/ CreateCollection(p)
        \/ AddCollection(p)
        \/ Diff(p)
        \/ ForUser(p)
        \/ Grant(p)
        \/ AppendUser(p)
        \/ Commit(p)
        \/ Crash(p)

\* runs of main_native that may overlap
SpecOverlapping == Init /\ [][NextOverlapping]_vars

\* ------------------------------------------------------------- claims
CallPcs == {"query", "create", "add", "diff", "users", "grant", "append", "commit"}

\* update_collection has returned to the loop of main_native
Returned(p) == pc[p] = "loop" /\ study[p] # NoStudy

\* an exception left update_collection at position `where`
FailedAt(p, where) == pc[p] = "failed" /\ failed_at[p] = where

\* the call has ended, by a return or by an exception
CallEnded(p) == Returned(p) \/ (pc[p] = "failed" /\ failed_at[p] \in CallPcs)

\* the call got past its create-collection step: it skipped it (a row was found),
\* or it issued the remote call
PastCreate(p) ==
    \/ pc[p] \in {"add", "diff", "users", "grant", "append", "commit"}
    \/ Returned(p)
    \/ pc[p] = "failed" /\ failed_at[p] \in {"add", "users", "grant", "commit"}
    \/ FailedAt(p, "create") /\ err[p] = "RemoteProvisioningError"

\* the call got past the commit of its GuestCollection row, or skipped it
PastAdd(p) ==
    \/ pc[p] \in {"diff", "users", "grant", "append", "commit"}
    \/ Returned(p)
    \/ pc[p] = "failed" /\ failed_at[p] \in {"users", "grant", "commit"}

\* C1 as stated: every call of update_collection that has a key to look up issues a
\* create-collection call iff no row for the key existed at its start; with no row it
\* issues exactly one call and adds exactly one row, with a row it issues none and adds none.
C1_AsStated ==
    \A p \in Procs :
        (CallEnded(p) /\ ~FailedAt(p, "query")) =>
            /\ (obs[p].n_create >= 1) <=> ~obs[p].had_row
            /\ ~obs[p].had_row => (obs[p].n_create = 1 /\ obs[p].n_rows = 1)
            /\ obs[p].had_row => (obs[p].n_create = 0 /\ obs[p].n_rows = 0)

\* C1 (amended): for a study with a known dataset type and a path, a call issues a
\* create-collection call iff no row for (study.id, dataset_type) existed at its start:
\* exactly one call when none existed, none when one existed; and once that call has
\* succeeded and the row is committed, exactly one GuestCollection row has been added, the
\* row of that key with the id the remote call returned; with a row found, none is added.
C1_CreateIffNoRow ==
    \A p \in Procs :
        /\ pc[p] \in {"query", "create"} => (obs[p].n_create = 0 /\ obs[p].n_rows = 0)
        /\ PastCreate(p) => obs[p].n_create = (IF obs[p].had_row THEN 0 ELSE 1)
        /\ (PastCreate(p) /\ ~PastAdd(p)) => obs[p].n_rows = 0
        /\ PastAdd(p) => obs[p].n_rows = (IF obs[p].had_row THEN 0 ELSE 1)
        /\ (PastAdd(p) /\ pc[p] # "failed") =>
                /\ guest[p] \in guest_collection
                /\ guest[p].study_id = study[p].id
                /\ guest[p].dataset_type = from_bids_str[study[p].type]
                /\ ~obs[p].had_row => guest[p].globus_uuid = id_collection_guest[p]

\* a call that found the row an earlier call had created, and created nothing
C1_Witness ==
    \E p \in Procs :
        /\ Returned(p) /\ obs[p].had_row /\ obs[p].n_create = 0 /\ obs[p].n_rows = 0
        /\ Cardinality(collections) = 1 /\ Cardinality(guest_collection) = 1

\* the usernames the committed rows associate with a collection row
Associated(g) ==
    {u.username : u \in {v \in globus_user :
        [guest_collection_id |-> g.id, globus_user_id |-> v.id] \in association}}

\* C2: a call that follows a returned call with the same study (same id, type, path and
\* users array) issues no grant and adds no association row and no GlobusUser row:
\* neither while it runs nor when it has ended.
C2_SecondCallIdle ==
    \A p \in Procs :
        obs[p].again =>
            /\ obs[p].granted = <<>>
            /\ obs[p].n_users = 0 /\ obs[p].n_assoc = 0
            /\ tx_user[p] = {} /\ tx_assoc[p] = {}
            /\ pc[p] \notin {"grant", "append"}

\* the second of two calls with the same study has returned; the study lists users, and
\* the first call granted them
C2_Witness ==
    \E p \in Procs :
        /\ Returned(p) /\ obs[p].again
        /\ study[p].users = <<"alice", "bob">>
        /\ Associated(guest[p]) = {"alice", "bob"}
        /\ BagCardinality(acl) = 2

\* C3 as stated: a call that returned issued exactly |to_grant| grants, one for each
\* username of to_grant = set(study.users) \ existing_usernames, and added |to_grant|
\* association rows, leaving the collection with existing_usernames \cup set(study.users).
C3_AsStated ==
    \A p \in Procs :
        Returned(p) =>
            LET to_grant == Range(study[p].users) \ existing_usernames[p]
            IN  /\ Len(obs[p].granted) = Cardinality(to_grant)
                /\ Range(obs[p].granted) = to_grant
                /\ obs[p].n_assoc = Cardinality(to_grant)
                /\ Associated(guest[p]) = existing_usernames[p] \cup Range(study[p].users)

\* C4: there is at most one GlobusUser row per username, among the committed rows and
\* among the rows a session sees; no call fails on a constraint of the database; and when
\* a call has returned, each username of its study has its one row, associated with the
\* call's collection.
C4_OneRowPerUsername ==
    /\ \A p \in Procs : \A u, v \in VisibleUsers(p) :
            (u.username = v.username \/ u.id = v.id) => u = v
    /\ \A p \in Procs : err[p] # "IntegrityError"
    /\ \A p \in Procs : Returned(p) =>
            \A name \in Range(study[p].users) :
                \E u \in globus_user :
                    /\ u.username = name
                    /\ [guest_collection_id |-> guest[p].id, globus_user_id |-> u.id]
                            \in association

\* one GlobusUser row, associated with two collections
C4_Witness ==
    \E u \in globus_user : \E g, h \in guest_collection :
        /\ g # h
        /\ Cardinality(globus_user) = 1
        /\ association = {[guest_collection_id |-> g.id, globus_user_id |-> u.id],
                          [guest_collection_id |-> h.id, globus_user_id |-> u.id]}

\* the call of p is a call for a study whose type is no dataset type
UnknownTypeCall(p) ==
    /\ pc[p] \in CallPcs
    /\ "type" \in DOMAIN study[p]
    /\ study[p].type \notin DOMAIN from_bids_str

\* C5: a call for a study whose type is outside {sourcedata, rawdata, deriveddata} ends
\* at its first step with the unknown-dataset-type error (the KeyError of from_bids_str),
\* and no step of it changes a table, a serial or the remote state.
C5_UnknownTypeNoEffect ==
    [][\A p \in Procs :
          /\ UnknownTypeCall(p)' => UNCHANGED <<db, remote>>
          /\ UnknownTypeCall(p) =>
                /\ pc[p] = "query"
                /\ UNCHANGED <<db, remote>>
                /\ \/ pc'[p] = "failed" /\ err'[p] = "UnknownDatasetType"
                   \/ pc'[p] = "crashed"]_vars

\* a call ended with the unknown-dataset-type error after an earlier call had left rows
C5_Witness ==
    \E p \in Procs :
        /\ FailedAt(p, "query") /\ err[p] = "UnknownDatasetType"
        /\ obs[p] = NoObs
        /\ guest_collection # {} /\ association # {}

\* C6 as stated: when a run of main_native has ended, by the end of the list or by an
\* exception of update_collection, update_collection was called for every study of the list.
C6_AsStated ==
    \A p \in Procs :
        (pc[p] = "done" \/ (pc[p] = "failed" /\ failed_at[p] \in CallPcs)) => todo[p] = 0

\* C6 (amended): an exception of update_collection is caught nowhere: the step that
\* raises it ends the run of main_native (pc "failed"), with the later studies of the
\* list not called; a run that has ended this way calls update_collection no more.
C6_ErrorEndsRun ==
    [][\A p \in Procs :
          /\ (pc[p] \in CallPcs /\ err'[p] # err[p]) =>
                (pc'[p] = "failed" /\ todo'[p] = todo[p] /\ ncalls' = ncalls)
          /\ pc[p] = "failed" =>
                /\ ncalls' = ncalls
                /\ pc'[p] \in {"failed", "get_credential"}]_vars

\* update_collection failed for a study of the list, and a later study was never called
C6_Witness ==
    \E p \in Procs :
        /\ pc[p] = "failed" /\ failed_at[p] \in CallPcs
        /\ todo[p] >= 1

\* the type strings of a dataset type
BidsStrsOf(dataset_type) == {t \in DOMAIN from_bids_str : from_bids_str[t] = dataset_type}

C8_AppendOnly ==
    [][/\ guest_collection \subseteq guest_collection'
       /\ globus_user \subseteq globus_user'
       /\ association \subseteq association'
       /\ \A g \in guest_collection : \A h \in guest_collection' :
              g.id = h.id => g = h
       /\ collections \subseteq collections'
       /\ acl \sqsubseteq acl']_vars

\* a call has returned whose users array lacks a username associated with its collection;
\* the association and the access rule are still there
C8_Witness ==
    \E p \in Procs :
        /\ Returned(p)
        /\ "alice" \in Associated(guest[p])
        /\ "alice" \notin Range(study[p].users)
        /\ BagIn(ReadRule(guest[p].globus_uuid, "alice"), acl)

GrantPcs == {"users", "grant", "append", "commit"}

\* C9: while a call is in its grant loop, the GuestCollection row it works on is
\* committed, and it is the row of a remote collection that exists: a call that creates
\* the collection commits the row after the remote call has returned and before its
\* first grant. A grant that fails leaves the row committed.
C9_RowCommittedBeforeGrants ==
    /\ [](\A p \in Procs :
            /\ pc[p] \in GrantPcs =>
                /\ guest[p] \in guest_collection
                /\ \E c \in collections : c.id = guest[p].globus_uuid
                /\ obs[p].n_rows = obs[p].n_create
            /\ pc[p] \in {"query", "create", "add"} => obs[p].granted = <<>>)
    /\ [][\A p \in Procs :
            (pc[p] = "grant" /\ pc'[p] = "failed") =>
                (guest[p] \in guest_collection' /\ obs'[p].n_rows = obs[p].n_rows)]_vars

\* a call created the collection and committed its row, and then a grant failed
C9_Witness ==
    \E p \in Procs :
        /\ FailedAt(p, "grant")
        /\ obs[p].n_create = 1 /\ obs[p].n_rows = 1
        /\ Cardinality(guest_collection) = 1
        /\ association = {}

\* C10: until the commit that follows the grant loop, a call has added no association row
\* and no GlobusUser row, whatever grants it has issued, and the usernames it has granted
\* are not associated with its collection; a call that leaves the loop by an exception or
\* a crash has added none, and a stopped call issues no further grant. existing_usernames
\* holds committed associations only, so a call that has got through the loop has granted
\* every username of its study that is not in it, granted before or not.
C10_GrantsUncommittedUntilCommit ==
    /\ [](\A p \in Procs :
            /\ (pc[p] \in GrantPcs \/ (pc[p] \in {"failed", "crashed"} /\ failed_at[p] \in GrantPcs)) =>
                    (obs[p].n_users = 0 /\ obs[p].n_assoc = 0)
            /\ pc[p] \in GrantPcs =>
                /\ Range(obs[p].granted) \cap Associated(guest[p]) = {}
                /\ existing_usernames[p] = Associated(guest[p])
            /\ (pc[p] = "commit" \/ Returned(p)) =>
                    Range(study[p].users) \ existing_usernames[p] \subseteq Range(obs[p].granted))
    /\ [][\A p \in Procs :
            /\ (pc[p] \in GrantPcs /\ pc'[p] \in {"failed", "crashed"}) =>
                    UNCHANGED <<guest_collection, globus_user, association>>
            /\ pc[p] \in {"failed", "crashed"} => (acl' = acl /\ obs'[p].granted \in {obs[p].granted, <<>>})]_vars

\* a call granted alice a second time: the call before it had granted her and stopped
\* before its commit
C10_Witness ==
    \E p \in Procs :
        /\ Returned(p)
        /\ obs[p].granted = <<"alice">>
        /\ obs[p].had_row
        /\ CopiesIn(ReadRule(guest[p].globus_uuid, "alice"), acl) = 2

\* the remote collections created for the key of study s (the name create_collection gives)
CollectionsFor(s) ==
    {c \in collections : c.display_name = <<"autobids_study", s.id, "type", s.type>>}

\* the remote collections of the key of s that no GuestCollection row records
Orphans(s) ==
    {c \in CollectionsFor(s) : \A g \in guest_collection : g.globus_uuid # c.id}

\* the call of p has a key, and its create-collection call has succeeded
Created(p) ==
    /\ obs[p].n_create = 1
    /\ \/ pc[p] \in {"add", "diff", "users", "grant", "append", "commit"}
       \/ Returned(p)

\* C11: a run that stops after its create-collection call has succeeded and before the
\* GuestCollection row is committed (a crash at the add) leaves the remote collection and
\* no row for the key; and a later call for the same study and type, finding no row while
\* such a collection exists, issues a create-collection call of its own, after which two
\* remote collections exist for the one key.
C11_CrashBeforeRowRecreates ==
    /\ [](\A p \in Procs :
            /\ (pc[p] \in {"failed", "crashed"} /\ failed_at[p] = "add") =>
                    (obs[p].n_create = 1 /\ obs[p].n_rows = 0)
            /\ ((pc[p] \in CallPcs \/ Returned(p)) /\ "type" \in DOMAIN study[p]
                    /\ "path" \in DOMAIN study[p] /\ ~obs[p].had_row
                    /\ \E c \in Orphans(study[p]) : c.id # id_collection_guest[p]) =>
                /\ pc[p] \in {"query", "create"}
                        => \A g \in guest_collection :
                              ~(g.study_id = study[p].id
                                    /\ g.dataset_type = from_bids_str[study[p].type])
                /\ PastCreate(p) => obs[p].n_create = 1
                /\ Created(p) => Cardinality(CollectionsFor(study[p])) >= 2)
    /\ [][\A p \in Procs :
            (pc[p] = "add" /\ pc'[p] \in {"failed", "crashed"}) =>
                /\ guest_collection' = guest_collection
                /\ \A g \in guest_collection' :
                        ~(g.study_id = study[p].id
                            /\ g.dataset_type = from_bids_str[study[p].type])
                /\ \E c \in collections' :
                        /\ c.id = id_collection_guest[p]
                        /\ c.display_name = <<"autobids_study", study[p].id, "type", study[p].type>>
                        /\ \A g \in guest_collection' : g.globus_uuid # c.id]_vars

\* a call has returned that created the second remote collection of its key: the first
\* was left by a run that stopped before it committed the row
C11_Witness ==
    \E p \in Procs :
        /\ Returned(p) /\ ~obs[p].had_row /\ obs[p].n_create = 1
        /\ Cardinality(CollectionsFor(study[p])) = 2
        /\ Cardinality(Orphans(study[p])) = 1
        /\ Cardinality(guest_collection) = 1

\* C13: get_credential changes the credential list by its POST alone. When the list holds
\* a credential of the target storage gateway, get_credential returns the id of that
\* credential and posts nothing; when it holds none (an empty list, or credentials of
\* other gateways only), it posts exactly one credential, of the target gateway, and
\* returns its id. Over the runs of the single writer the list holds at most one
\* credential of the target gateway, and every run that got a credential got that one.
C13_CredentialReused ==
    /\ [](/\ Cardinality({c \in credentials :
                            c.storage_gateway_id = STORAGE_GATEWAY_ID_GRAHAM}) <= 1
          /\ \A p \in Procs :
                /\ pc[p] = "post_credential" =>
                        \A c \in credentials : c.storage_gateway_id # STORAGE_GATEWAY_ID_GRAHAM
                /\ pc[p] \in {"fetch", "loop"} \cup CallPcs =>
                        \E c \in credentials :
                            /\ c.storage_gateway_id = STORAGE_GATEWAY_ID_GRAHAM
                            /\ c.id = id_credential_user[p])
    /\ [][\A p \in Procs :
            /\ (\A q \in Procs : pc[q] # "post_credential") => credentials' = credentials
            /\ (pc[p] = "get_credential" /\ pc'[p] \notin {"failed", "crashed"}) =>
                    IF \E c \in credentials : c.storage_gateway_id = STORAGE_GATEWAY_ID_GRAHAM
                    THEN pc'[p] = "fetch"
                    ELSE pc'[p] = "post_credential"
            /\ (pc[p] = "post_credential" /\ pc'[p] = "fetch") =>
                    \E c \in credentials' \ credentials :
                        /\ credentials' = credentials \cup {c}
                        /\ c.storage_gateway_id = STORAGE_GATEWAY_ID_GRAHAM
                        /\ c.id = id_credential_user'[p]
            /\ (pc[p] = "post_credential" /\ pc'[p] # "fetch") =>
                    credentials' = credentials]_vars

\* the second run has got the credential the first run created, next to a credential of
\* another storage gateway; the first run had gone on to commit a collection
C13_Witness ==
    \E p \in Procs :
        /\ runs = 2 /\ pc[p] = "fetch"
        /\ guest_collection # {}
        /\ OtherCredential \in credentials
        /\ Cardinality(credentials) = 2
        /\ id_credential_user[p] # OtherCredential.id

\* C14: in every state, after failed and crashed runs too, every committed association
\* row joins a committed GuestCollection row and a committed GlobusUser row, and the
\* remote access rules hold a read grant (principal the user's identity, path "/",
\* permissions "r") for that username on that collection's globus_uuid; so do the
\* association rows a session has flushed and not yet committed. The grant comes first:
\* the step that commits an association row finds the grant among the rules already.
C14_AssociationWasGranted ==
    /\ [](\A p \in Procs : \A a \in VisibleAssoc(p) :
            \E g \in guest_collection : \E u \in VisibleUsers(p) :
                /\ g.id = a.guest_collection_id
                /\ u.id = a.globus_user_id
                /\ a \in association => u \in globus_user
                /\ BagIn([endpoint |-> g.globus_uuid, principal_type |-> "identity",
                          principal |-> <<"identity", u.username>>,
                          path |-> "/", permissions |-> "r"], acl))
    /\ [][\A a \in association' \ association :
            \E g \in guest_collection : \E u \in globus_user' :
                /\ g.id = a.guest_collection_id
                /\ u.id = a.globus_user_id
                /\ BagIn([endpoint |-> g.globus_uuid, principal_type |-> "identity",
                          principal |-> <<"identity", u.username>>,
                          path |-> "/", permissions |-> "r"], acl)]_vars

\* a run has failed at a grant for bob after an earlier call committed the association
\* of alice: alice's row has its grant, and bob has neither a row nor a grant
C14_Witness ==
    \E p \in Procs : \E g \in guest_collection :
        /\ FailedAt(p, "grant")
        /\ Associated(g) = {"alice"}
        /\ CopiesIn(ReadRule(g.globus_uuid, "alice"), acl) = 1
        /\ ~BagIn(ReadRule(g.globus_uuid, "bob"), acl)
        /\ Cardinality(association) = 1

\* a committed row has the key of the study of p's call
RowOfCall(p, g) ==
    g.study_id = study[p].id /\ g.dataset_type = from_bids_str[study[p].type]

\* C12: when runs overlap, nothing but the committed rows decides what a call does: a
\* lookup that finds no committed row for its key goes on to the create-collection call
\* whatever the other run is doing (it may be between its own lookup and its commit for
\* the same key), and that call adds a remote collection of its own; the commit of a row
\* whose key has a committed row fails with an integrity error and leaves the table as
\* it is, so that no two committed rows share a (study_id, dataset_type).
C12_OverlapDoubleProvisions ==
    /\ [](\A g, h \in guest_collection :
            (g.study_id = h.study_id /\ g.dataset_type = h.dataset_type) => g = h)
    /\ [][\A p \in Procs :
            /\ (pc[p] = "query" /\ pc'[p] \notin {"query", "failed", "crashed"}) =>
                    pc'[p] = (IF \E g \in guest_collection : RowOfCall(p, g)
                              THEN "diff" ELSE "create")
            /\ (pc[p] = "create" /\ pc'[p] = "add") =>
                    /\ collections \subseteq collections'
                    /\ Cardinality(collections') = Cardinality(collections) + 1
            /\ (pc[p] = "add" /\ pc'[p] # "add"
                    /\ \E g \in guest_collection : RowOfCall(p, g)) =>
                    /\ guest_collection' = guest_collection
                    /\ \/ pc'[p] = "crashed"
                       \/ pc'[p] = "failed" /\ err'[p] = "IntegrityError"]_vars

\* two overlapping runs have each created a remote collection for the same key; one has
\* committed its row, and the commit of the other has failed on the unique constraint
C12_Witness ==
    \E p, q \in Procs :
        /\ p # q
        /\ ~obs[p].had_row /\ obs[p].n_create = 1 /\ obs[p].n_rows = 1
        /\ ~obs[q].had_row /\ obs[q].n_create = 1 /\ obs[q].n_rows = 0
        /\ FailedAt(q, "add") /\ err[q] = "IntegrityError"
        /\ Cardinality(collections) = 2
        /\ \A c, d \in collections : c.display_name = d.display_name
        /\ Cardinality(guest_collection) = 1

TypeOK ==
    /\ pc \in [Procs -> Stopped \cup {"get_credential", "post_credential", "fetch", "loop",
                 "query", "create", "add", "diff", "users", "grant", "append", "commit"}]
    /\ runs \in 0..MaxRuns
    /\ ncalls \in 0..MaxCalls
    /\ \A p \in Procs : todo[p] \in 0..MaxCalls

====
